---- MODULE Spec2Model ----
(***************************************************************************)
(* The OrderSearch component (components/OrderSearch.tsx) as a state       *)
(* machine: the React state of the component, the lodash debounced         *)
(* function it owns, the memoised filter pipeline and the performance      *)
(* metrics.  One action per user event, timer callback or lifecycle step;  *)
(* each action is the event handler together with the render and the       *)
(* effects React runs for it.                                              *)
(***************************************************************************)
EXTENDS Integers, Sequences, FiniteSets, TLC

(***************************************************************************)
(* Bounds of the model.                                                    *)
(***************************************************************************)
\* number of orders the generator produces (the code's loop makes 50)
NumOrders == 2
\* milliseconds of wall-clock time one Tick step lets pass
TickMs == 150
\* pipeline runs after which no further run is explored
MaxRuns == 3
\* render passes React makes for one update before it gives up (React: 25)
MaxPasses == 3

(***************************************************************************)
(* Program constants.                                                      *)
(***************************************************************************)
\* debounce(..., 300)
DebounceWait == 300
\* fuseOptions.threshold: 0.3, in thousandths
FuseThresholdPermille == 300
\* fuseOptions.minMatchCharLength: 2
MinMatchCharLength == 2

(***************************************************************************)
(* Text.  A string is a sequence of one-character strings, so that trim,   *)
(* comparison and approximate matching are computed character by           *)
(* character.                                                              *)
(***************************************************************************)
Whitespace == {" ", "\t", "\n"}

RECURSIVE TrimStart(_)
TrimStart(s) ==
    IF s # <<>> /\ Head(s) \in Whitespace THEN TrimStart(Tail(s)) ELSE s

RECURSIVE TrimEnd(_)
TrimEnd(s) ==
    IF s # <<>> /\ s[Len(s)] \in Whitespace
    THEN TrimEnd(SubSeq(s, 1, Len(s) - 1))
    ELSE s

\* String.prototype.trim
Trim(s) == TrimEnd(TrimStart(s))

\* String.prototype.toLowerCase on the letters the model uses
LowerChar(c) ==
    CASE c = "W" -> "w" [] c = "T" -> "t" [] c = "O" -> "o" [] c = "R" -> "r"
      [] c = "D" -> "d" [] c = "Z" -> "z" [] OTHER -> c

RECURSIVE ToLower(_)
ToLower(s) ==
    IF s = <<>> THEN <<>> ELSE <<LowerChar(Head(s))>> \o ToLower(Tail(s))

Digit(i) == CASE i = 0 -> "0" [] i = 1 -> "1" [] i = 2 -> "2" [] i = 3 -> "3"
              [] i = 4 -> "4" [] i = 5 -> "5" [] i = 6 -> "6" [] i = 7 -> "7"
              [] i = 8 -> "8" [] OTHER -> "9"

\* `ORD-${String(i).padStart(4, '0')}`
OrderId(i) ==
    <<"O", "R", "D", "-">> \o
    <<Digit((i \div 1000) % 10), Digit((i \div 100) % 10),
      Digit((i \div 10) % 10), Digit(i % 10)>>

Walmart == <<"W", "a", "l", "m", "a", "r", "t">>
Target == <<"T", "a", "r", "g", "e", "t">>

(***************************************************************************)
(* Orders.  An order carries the fields the search and the filters read:   *)
(* id, storeName, status, paymentAmount (clientCount, items and timestamp  *)
(* are only ever rendered).                                                *)
(***************************************************************************)
Statuses == {"pending", "in_progress", "completed"}

\* what the random draws of one loop iteration of the generator may give
OrderKinds ==
    { [storeName |-> Walmart, status |-> "pending", paymentAmount |-> 100],
      [storeName |-> Target, status |-> "completed", paymentAmount |-> 75],
      [storeName |-> Walmart, status |-> "in_progress", paymentAmount |-> 200] }

\* the draws that give the orders ORD-0001 Walmart pending 120, ORD-0002
\* Target completed 80 and ORD-0003 Walmart in_progress 200
ExampleKinds ==
    << [storeName |-> Walmart, status |-> "pending", paymentAmount |-> 120],
       [storeName |-> Target, status |-> "completed", paymentAmount |-> 80],
       [storeName |-> Walmart, status |-> "in_progress", paymentAmount |-> 200] >>

MakeOrder(i, k) ==
    [id |-> OrderId(i), storeName |-> k.storeName, status |-> k.status,
     paymentAmount |-> k.paymentAmount]

\* insert o behind every element that does not sort after it (stable)
RECURSIVE InsertDesc(_, _)
InsertDesc(o, sorted) ==
    IF sorted = <<>> THEN <<o>>
    ELSE IF Head(sorted).paymentAmount >= o.paymentAmount
         THEN <<Head(sorted)>> \o InsertDesc(o, Tail(sorted))
         ELSE <<o>> \o sorted

\* the sort with the comparator reversed: a.paymentAmount - b.paymentAmount
RECURSIVE InsertAsc(_, _)
InsertAsc(o, sorted) ==
    IF sorted = <<>> THEN <<o>>
    ELSE IF Head(sorted).paymentAmount <= o.paymentAmount
         THEN <<Head(sorted)>> \o InsertAsc(o, Tail(sorted))
         ELSE <<o>> \o sorted

RECURSIVE SortByPaymentAsc(_)
SortByPaymentAsc(os) ==
    IF os = <<>> THEN <<>>
    ELSE InsertAsc(os[Len(os)], SortByPaymentAsc(SubSeq(os, 1, Len(os) - 1)))

\* orders.sort((a, b) => b.paymentAmount - a.paymentAmount), a stable sort
RECURSIVE SortByPaymentDesc(_)
SortByPaymentDesc(os) ==
    IF os = <<>> THEN <<>>
    ELSE InsertDesc(os[Len(os)], SortByPaymentDesc(SubSeq(os, 1, Len(os) - 1)))

\* generateMockOrders, for the draws kinds[1], ..., kinds[Len(kinds)]
GenerateMockOrders(kinds) ==
    SortByPaymentDesc([i \in 1..Len(kinds) |-> MakeOrder(i, kinds[i])])

(***************************************************************************)
(* The raw texts the user may have in the search box.                      *)
(***************************************************************************)
Queries == { <<>>, <<" ">>, <<"W", "a", "l", "m", "a", "r">>, OrderId(2) }

\* the texts typed over the orders of ExampleKinds
ExampleQueries ==
    { <<>>, <<"W", "a", "l", "m", "a", "r">>, <<"Z", "z", "z", "z", "z">> }

\* texts of one character: a digit of every order id, a letter of a store
CoreQueries == { <<>>, <<"0">>, <<"W">> }

(***************************************************************************)
(* The fuzzy matcher: new Fuse(orders, fuseOptions) and fuse.search.       *)
(* A key matches a pattern when the pattern occurs in the key's text,      *)
(* starting at some location, with so few edit errors that                 *)
(*     errors / |pattern| + location / 100 <= threshold;                   *)
(* scores are kept as integers in units of 1 / (1000 * |pattern|).         *)
(***************************************************************************)
Min2(a, b) == IF a <= b THEN a ELSE b

\* whether p matches a prefix of t with at most e edit errors (a character
\* replaced, a pattern character missing from the text, a text character
\* missing from the pattern)
RECURSIVE Fits(_, _, _)
Fits(p, t, e) ==
    IF p = <<>> THEN TRUE
    ELSE IF t # <<>> /\ Head(p) = Head(t) THEN Fits(Tail(p), Tail(t), e)
    ELSE /\ e > 0
         /\ \/ Fits(Tail(p), t, e - 1)
            \/ t # <<>> /\ Fits(Tail(p), Tail(t), e - 1)
            \/ t # <<>> /\ Fits(p, Tail(t), e - 1)

\* the error counts the threshold admits at location 0
ErrorLevels(L) == {e \in 0..(L - 1) : 1000 * e <= FuseThresholdPermille * L}

\* the scores of the matches of p that start at location loc of t
ScoresAt(p, t, loc) ==
    { 1000 * e + 10 * Len(p) * loc :
          e \in {x \in ErrorLevels(Len(p)) : Fits(p, SubSeq(t, loc + 1, Len(t)), x)} }

\* the match mask has a run of minMatchCharLength text characters that
\* occur in the pattern
HasRun(p, t) ==
    LET alphabet == {p[i] : i \in 1..Len(p)}
    IN \E i \in 1..(Len(t) - MinMatchCharLength + 1) :
           \A k \in 0..(MinMatchCharLength - 1) : t[i + k] \in alphabet

\* the match of one key's text against the pattern
KeyMatch(pattern, text) ==
    LET p == ToLower(pattern)
        t == ToLower(text)
        L == Len(p)
        hits == UNION { ScoresAt(p, t, loc) : loc \in 0..(Len(t) - 1) }
        ok == { s \in hits : s <= FuseThresholdPermille * L }
    IN IF p = t THEN [isMatch |-> TRUE, exact |-> TRUE, score |-> 0]
       ELSE IF ok # {} /\ HasRun(p, t)
            THEN [isMatch |-> TRUE, exact |-> FALSE,
                  score |-> LET m == CHOOSE s \in ok : \A u \in ok : s <= u
                            IN IF m < L THEN L ELSE m]
            ELSE [isMatch |-> FALSE, exact |-> FALSE, score |-> 1000 * L]

\* every text a key of some order can hold
KeyTexts ==
    {OrderId(i) : i \in 1..NumOrders} \cup {k.storeName : k \in OrderKinds} \cup
    {OrderId(i) : i \in 1..Len(ExampleKinds)} \cup
    {ExampleKinds[i].storeName : i \in 1..Len(ExampleKinds)}

\* the matches, computed once
KeyMatchTable ==
    [q \in (Queries \cup ExampleQueries \cup CoreQueries) \ {<<>>}, t \in KeyTexts |->
        KeyMatch(q, t)]

\* the relevance of an order: keys ['id', 'storeName'], equal weights
ItemRank(o, q) ==
    LET a == KeyMatchTable[q, o.id]
        b == KeyMatchTable[q, o.storeName]
        unit == 1000 * Len(q)
    IN [isMatch |-> a.isMatch \/ b.isMatch,
        exact |-> (IF a.exact THEN 1 ELSE 0) + (IF b.exact THEN 1 ELSE 0),
        prod |-> (IF a.exact THEN 1 ELSE IF a.isMatch THEN a.score ELSE unit)
               * (IF b.exact THEN 1 ELSE IF b.isMatch THEN b.score ELSE unit)]

\* r sorts strictly before s
RankBefore(r, s) == r.exact > s.exact \/ (r.exact = s.exact /\ r.prod < s.prod)

\* the results of the search before the sort: every order with its rank
RECURSIVE RankAll(_, _)
RankAll(os, q) ==
    IF os = <<>> THEN <<>>
    ELSE <<[item |-> Head(os), rank |-> ItemRank(Head(os), q)]>> \o RankAll(Tail(os), q)

\* insert the result x behind every result that does not rank after it
\* (ties keep the index order)
RECURSIVE InsertRanked(_, _)
InsertRanked(x, sorted) ==
    IF sorted = <<>> THEN <<x>>
    ELSE IF RankBefore(x.rank, Head(sorted).rank)
         THEN <<x>> \o sorted
         ELSE <<Head(sorted)>> \o InsertRanked(x, Tail(sorted))

RECURSIVE SortRanked(_)
SortRanked(xs) ==
    IF xs = <<>> THEN <<>>
    ELSE InsertRanked(xs[Len(xs)], SortRanked(SubSeq(xs, 1, Len(xs) - 1)))

\* results.map(r => r.item)
RECURSIVE Items(_)
Items(rs) == IF rs = <<>> THEN <<>> ELSE <<Head(rs).item>> \o Items(Tail(rs))

\* a search that finds the orders with a key that is the query, letter for
\* letter
FuseSearchWholeText(os, q) ==
    SelectSeq(os, LAMBDA o : ToLower(q) \in {ToLower(o.id), ToLower(o.storeName)})

\* fuse.search(query).map(r => r.item)
FuseSearch(os, q) ==
    Items(SortRanked(SelectSeq(RankAll(os, q), LAMBDA x : x.rank.isMatch)))

(***************************************************************************)
(* The filter pipeline: the body of the filteredOrders memo.               *)
(***************************************************************************)
\* step 1 with the trim forgotten: debouncedQuery ? fuse.search(...) : orders
TextStepNoTrim(os, dq) ==
    IF dq # <<>>
    THEN [result |-> FuseSearch(os, dq), fuseCalled |-> TRUE]
    ELSE [result |-> os, fuseCalled |-> FALSE]

\* step 1: debouncedQuery.trim() ? fuse.search(debouncedQuery).map(r => r.item)
\* : orders; with whether fuse.search was called
TextStep(os, dq) ==
    IF Trim(dq) # <<>>
    THEN [result |-> FuseSearch(os, dq), fuseCalled |-> TRUE]
    ELSE [result |-> os, fuseCalled |-> FALSE]

\* step 2 with the comparison negated
StatusStepNegated(result, st) ==
    IF st # "all" THEN SelectSeq(result, LAMBDA o : o.status # st) ELSE result

\* step 2: selectedStatus !== 'all' ? result.filter(status === selectedStatus)
StatusStep(result, st) ==
    IF st # "all" THEN SelectSeq(result, LAMBDA o : o.status = st) ELSE result

\* step 3 with > for >=
PaymentStepStrict(result, mp) == SelectSeq(result, LAMBDA o : o.paymentAmount > mp)

\* step 3 with <= for >=
PaymentStepInverted(result, mp) == SelectSeq(result, LAMBDA o : o.paymentAmount <= mp)

\* step 3 followed by a sort by payment
PaymentStepSorted(result, mp) ==
    SortByPaymentDesc(SelectSeq(result, LAMBDA o : o.paymentAmount >= mp))

\* step 3: result.filter(order => order.paymentAmount >= minPayment)
PaymentStep(result, mp) == SelectSeq(result, LAMBDA o : o.paymentAmount >= mp)

\* the body of the memo, without the timing
FilterPipeline(os, dq, st, mp) ==
    LET text == TextStep(os, dq)
    IN [result |-> PaymentStep(StatusStep(text.result, st), mp),
        fuseCalled |-> text.fuseCalled]

(***************************************************************************)
(* Grouping by status and flattening for the list.  The value of the       *)
(* groupedOrders memo is a record: null, or the sequence of groups.        *)
(***************************************************************************)
NewGroup(status, statusLabel) ==
    [status |-> status, statusLabel |-> statusLabel, orders |-> <<>>, count |-> 0]

\* const groups: OrderGroup[] = [...]
InitialGroups ==
    << NewGroup("pending", "Pendiente"),
       NewGroup("in_progress", "En Progreso"),
       NewGroup("completed", "Completado") >>

\* groups.find(g => g.status === order.status): its index, 0 for undefined
FindGroup(groups, status) ==
    IF \E i \in 1..Len(groups) : groups[i].status = status
    THEN CHOOSE i \in 1..Len(groups) :
             /\ groups[i].status = status
             /\ \A j \in 1..(i - 1) : groups[j].status # status
    ELSE 0

\* the body of the forEach with group.orders.unshift(order)
UnshiftOrder(groups, order) ==
    LET g == FindGroup(groups, order.status)
    IN IF g = 0 THEN groups
       ELSE [groups EXCEPT ![g].orders = <<order>> \o @, ![g].count = @ + 1]

\* the body of the forEach: if (group) { group.orders.push(order); group.count++ }
PushOrder(groups, order) ==
    LET g == FindGroup(groups, order.status)
    IN IF g = 0 THEN groups
       ELSE [groups EXCEPT ![g].orders = Append(@, order), ![g].count = @ + 1]

RECURSIVE ForEachUnshift(_, _)
ForEachUnshift(groups, fo) ==
    IF fo = <<>> THEN groups
    ELSE ForEachUnshift(UnshiftOrder(groups, Head(fo)), Tail(fo))

\* filteredOrders.forEach(order => ...)
RECURSIVE ForEachPush(_, _)
ForEachPush(groups, fo) ==
    IF fo = <<>> THEN groups
    ELSE ForEachPush(PushOrder(groups, Head(fo)), Tail(fo))

NullGroups == [null |-> TRUE, groups |-> <<>>]

\* the memo with no bucket for completed orders
GroupOrdersTwoBuckets(fo, sg) ==
    IF ~sg THEN NullGroups
    ELSE [null |-> FALSE,
          groups |-> SelectSeq(ForEachPush(SubSeq(InitialGroups, 1, 2), fo),
                               LAMBDA g : g.count > 0)]

\* the memo without its final filter
GroupOrdersKeepEmpty(fo, sg) ==
    IF ~sg THEN NullGroups
    ELSE [null |-> FALSE, groups |-> ForEachPush(InitialGroups, fo)]

\* the memo with unshift for push
GroupOrdersUnshift(fo, sg) ==
    IF ~sg THEN NullGroups
    ELSE [null |-> FALSE,
          groups |-> SelectSeq(ForEachUnshift(InitialGroups, fo),
                               LAMBDA g : g.count > 0)]

\* the groupedOrders memo for filteredOrders fo and showGrouped sg
GroupOrders(fo, sg) ==
    IF ~sg THEN NullGroups
    ELSE [null |-> FALSE,
          groups |-> SelectSeq(ForEachPush(InitialGroups, fo),
                               LAMBDA g : g.count > 0)]

\* the flattening without flattened.push(group)
FlattenDataNoHeaders(grouped, fo) == fo

\* groupedOrders.forEach(group => { flattened.push(group);
\*                                  flattened.push(...group.orders) })
RECURSIVE FlattenGroups(_)
FlattenGroups(groups) ==
    IF groups = <<>> THEN <<>>
    ELSE <<Head(groups)>> \o Head(groups).orders \o FlattenGroups(Tail(groups))

\* the flattenedData memo
FlattenData(grouped, fo) ==
    IF grouped.null THEN fo ELSE FlattenGroups(grouped.groups)

(***************************************************************************)
(* JavaScript numbers.  A Number is an IEEE 754 binary64 value; the ones   *)
(* the metrics hold are zero or positive and far from the ends of the      *)
(* exponent range, so a Number is modelled as m * 2^e with m zero or a     *)
(* natural number of exactly MantissaBits bits, and every operation        *)
(* rounds its exact result to the nearest such value, ties to even.        *)
(* A natural number is the sequence of its digits to the base LimbBase,    *)
(* lowest first, without leading zero digits.                              *)
(***************************************************************************)
MantissaBits == 53
LimbBits == 14
LimbBase == 2^LimbBits

RECURSIVE BigNorm(_)
BigNorm(a) ==
    IF a # <<>> /\ a[Len(a)] = 0 THEN BigNorm(SubSeq(a, 1, Len(a) - 1)) ELSE a

RECURSIVE BigAddCarry(_, _, _)
BigAddCarry(a, b, c) ==
    IF a = <<>> /\ b = <<>> THEN (IF c = 0 THEN <<>> ELSE <<c>>)
    ELSE LET x == IF a = <<>> THEN 0 ELSE Head(a)
             y == IF b = <<>> THEN 0 ELSE Head(b)
             sum == x + y + c
         IN <<sum % LimbBase>> \o
            BigAddCarry(IF a = <<>> THEN <<>> ELSE Tail(a),
                        IF b = <<>> THEN <<>> ELSE Tail(b),
                        sum \div LimbBase)

BigAdd(a, b) == BigAddCarry(a, b, 0)

RECURSIVE BigMulCarry(_, _, _)
BigMulCarry(a, n, c) ==
    IF a = <<>>
    THEN (IF c = 0 THEN <<>> ELSE <<c % LimbBase>> \o BigMulCarry(<<>>, n, c \div LimbBase))
    ELSE LET prod == Head(a) * n + c
         IN <<prod % LimbBase>> \o BigMulCarry(Tail(a), n, prod \div LimbBase)

\* a * n for 0 <= n <= LimbBase
BigMulSmall(a, n) == BigNorm(BigMulCarry(a, n, 0))

\* quotient and remainder of (r * LimbBase^Len(a) + a) by n, 0 < n <= LimbBase
RECURSIVE BigDivRem(_, _, _)
BigDivRem(a, n, r) ==
    IF a = <<>> THEN [q |-> <<>>, r |-> r]
    ELSE LET cur == r * LimbBase + a[Len(a)]
             rest == BigDivRem(SubSeq(a, 1, Len(a) - 1), n, cur % n)
         IN [q |-> Append(rest.q, cur \div n), r |-> rest.r]

BigDivSmall(a, n) ==
    LET d == BigDivRem(a, n, 0) IN [q |-> BigNorm(d.q), r |-> d.r]

BigBitLen(a) ==
    IF a = <<>> THEN 0
    ELSE LimbBits * (Len(a) - 1) +
         (CHOOSE k \in 1..LimbBits : 2^(k - 1) <= a[Len(a)] /\ a[Len(a)] < 2^k)

\* a * 2^k
BigShl(a, k) ==
    IF a = <<>> THEN <<>>
    ELSE [i \in 1..(k \div LimbBits) |-> 0] \o BigMulSmall(a, 2^(k % LimbBits))

\* a \div 2^k
BigShr(a, k) ==
    IF k \div LimbBits >= Len(a) THEN <<>>
    ELSE BigDivSmall(SubSeq(a, (k \div LimbBits) + 1, Len(a)), 2^(k % LimbBits)).q

\* bit k of a, bit 0 the lowest
BigBit(a, k) ==
    IF k \div LimbBits >= Len(a) THEN 0
    ELSE (a[(k \div LimbBits) + 1] \div 2^(k % LimbBits)) % 2

\* the k lowest bits of a are zero
BigLowZero(a, k) ==
    /\ \A i \in 1..(k \div LimbBits) : i <= Len(a) => a[i] = 0
    /\ k \div LimbBits < Len(a) => a[(k \div LimbBits) + 1] % 2^(k % LimbBits) = 0

\* a <= b
RECURSIVE BigLeq(_, _)
BigLeq(a, b) ==
    IF Len(a) # Len(b) THEN Len(a) < Len(b)
    ELSE IF a = <<>> THEN TRUE
    ELSE IF a[Len(a)] # b[Len(b)] THEN a[Len(a)] < b[Len(b)]
    ELSE BigLeq(SubSeq(a, 1, Len(a) - 1), SubSeq(b, 1, Len(b) - 1))

NumZero == [m |-> <<>>, e |-> 0]

\* the Number nearest to big * 2^e, ties to even
RoundToNumber(big, e) ==
    LET len == BigBitLen(big)
        drop == len - MantissaBits
        q == BigShr(big, drop)
        roundUp == /\ BigBit(big, drop - 1) = 1
                   /\ (~BigLowZero(big, drop - 1) \/ BigBit(q, 0) = 1)
        q2 == IF roundUp THEN BigNorm(BigAdd(q, <<1>>)) ELSE q
    IN IF big = <<>> THEN NumZero
       ELSE IF drop <= 0 THEN [m |-> BigShl(big, -drop), e |-> e + drop]
       ELSE IF BigBitLen(q2) > MantissaBits
            THEN [m |-> BigShr(q2, 1), e |-> e + drop + 1]
            ELSE [m |-> q2, e |-> e + drop]

\* the Number of the integer n, 0 <= n < LimbBase^2
NumFromInt(n) == RoundToNumber(BigNorm(<<n % LimbBase, n \div LimbBase>>), 0)

\* x * n for the Number of an integer n, 0 <= n <= LimbBase
NumTimesInt(x, n) == RoundToNumber(BigMulSmall(x.m, n), x.e)

\* x + y
NumPlus(x, y) ==
    LET e == IF x.e < y.e THEN x.e ELSE y.e
    IN IF x.m = <<>> THEN y
       ELSE IF y.m = <<>> THEN x
       ELSE RoundToNumber(BigAdd(BigShl(x.m, x.e - e), BigShl(y.m, y.e - e)), e)

\* x / n for the Number of an integer n, 0 < n <= LimbBase: the quotient
\* to 5 more limbs and one bit that tells whether a remainder is left
NumOverInt(x, n) ==
    LET d == BigDivSmall(BigShl(x.m, 5 * LimbBits), n)
        sticky == IF d.r = 0 THEN <<>> ELSE <<1>>
    IN RoundToNumber(BigAdd(BigMulSmall(d.q, 2), sticky), x.e - 5 * LimbBits - 1)

(***************************************************************************)
(* Performance metrics.                                                    *)
(***************************************************************************)
InitialMetrics ==
    [lastSearchTime |-> NumZero, totalSearches |-> 0, averageSearchTime |-> NumZero]

\* the updater that divides by the count before the increment
RecordSearchTimeOldCount(prev, searchTime) ==
    [lastSearchTime |-> searchTime,
     totalSearches |-> prev.totalSearches + 1,
     averageSearchTime |->
         IF prev.totalSearches = 0 THEN searchTime
         ELSE NumOverInt(NumPlus(NumTimesInt(prev.averageSearchTime,
                                             prev.totalSearches), searchTime),
                         prev.totalSearches)]

\* the updater that leaves the count as it is
RecordSearchTimeNoCount(prev, searchTime) ==
    [lastSearchTime |-> searchTime,
     totalSearches |-> prev.totalSearches,
     averageSearchTime |-> prev.averageSearchTime]

\* the updater passed to setPerformanceMetrics
RecordSearchTime(prev, searchTime) ==
    LET newTotal == prev.totalSearches + 1
        newAverage ==
            NumOverInt(NumPlus(NumTimesInt(prev.averageSearchTime,
                                           prev.totalSearches), searchTime),
                       newTotal)
    IN [lastSearchTime |-> searchTime,
        totalSearches |-> newTotal,
        averageSearchTime |-> newAverage]

(***************************************************************************)
(* The debounced function debounce(fn, 300) of lodash.debounce: trailing   *)
(* edge only, no maxWait.  Its state: whether a timer is set and how long  *)
(* until it is due, the arguments of the last call not yet passed on, the  *)
(* time since the last call (-1: lastCallTime is undefined), and the       *)
(* number of timeouts it has set that have neither fired nor been cleared. *)
(* Each operation gives the new state and the arguments fn was invoked     *)
(* with.                                                                   *)
(***************************************************************************)
IdleDebounce ==
    [timerId |-> FALSE, timerLeft |-> 0, lastArgs |-> <<>>, lastCallAge |-> -1,
     timers |-> 0]

\* debounced(query) of a debounce with {leading: true}
DebCallLeading(d, q) ==
    IF d.timerId
    THEN [state |-> [d EXCEPT !.lastArgs = <<q>>, !.lastCallAge = 0], invoked |-> <<>>]
    ELSE [state |-> [timerId |-> TRUE, timerLeft |-> DebounceWait,
                     lastArgs |-> <<>>, lastCallAge |-> 0, timers |-> d.timers + 1],
          invoked |-> <<q>>]

\* debounced(query): a timeout is set when none is
DebCall(d, q) ==
    [state |-> IF d.timerId
               THEN [d EXCEPT !.lastArgs = <<q>>, !.lastCallAge = 0]
               ELSE [timerId |-> TRUE, timerLeft |-> DebounceWait,
                     lastArgs |-> <<q>>, lastCallAge |-> 0, timers |-> d.timers + 1],
     invoked |-> <<>>]

\* debounced.cancel(): clearTimeout(timerId) when a timer is set
DebCancel(d) ==
    [state |-> [IdleDebounce EXCEPT
                    !.timers = IF d.timerId THEN d.timers - 1 ELSE d.timers],
     invoked |-> <<>>]

\* a callback that neither invokes fn nor sets the timer again
DebTimerExpiredSilent(d) ==
    [state |-> [d EXCEPT !.timerId = FALSE, !.timerLeft = 0, !.timers = @ - 1],
     invoked |-> <<>>]

\* a callback that never sees the trailing edge and sets the timeout again
DebTimerExpiredRearm(d) ==
    [state |-> [d EXCEPT !.timerLeft = DebounceWait], invoked |-> <<>>]

\* timerExpired(), the setTimeout callback: the trailing edge, or a new
\* timeout for the rest of the wait
DebTimerExpired(d) ==
    IF d.lastCallAge = -1 \/ d.lastCallAge >= DebounceWait
    THEN [state |-> [d EXCEPT !.timerId = FALSE, !.timerLeft = 0, !.lastArgs = <<>>,
                              !.timers = @ - 1],
          invoked |-> d.lastArgs]
    ELSE [state |-> [d EXCEPT !.timerLeft = DebounceWait - d.lastCallAge],
          invoked |-> <<>>]

\* a cleanup that calls debouncedSetQuery.flush()
EffectCleanupFlush(d) ==
    IF d.timerId
    THEN [state |-> [d EXCEPT !.timerId = FALSE, !.timerLeft = 0, !.lastArgs = <<>>,
                              !.timers = @ - 1],
          invoked |-> d.lastArgs]
    ELSE [state |-> d, invoked |-> <<>>]

\* an effect that returns no cleanup
EffectCleanupNone(d) == [state |-> d, invoked |-> <<>>]

\* the cleanup of the debounce effect: debouncedSetQuery.cancel()
EffectCleanup(d) == DebCancel(d)

\* an effect without cleanup that calls a debounced function made in this
\* render: the timeout of the one before stays set
DebounceEffectFreshDebounce(d, sq) ==
    [state |-> [DebCall(IdleDebounce, sq).state EXCEPT !.timers = d.timers + 1],
     invoked |-> <<>>]

\* an effect that passes an empty text on at once
DebounceEffectEmptyNow(d, sq) ==
    IF sq = <<>>
    THEN [state |-> EffectCleanup(d).state, invoked |-> <<sq>>]
    ELSE [state |-> DebCall(EffectCleanup(d).state, sq).state, invoked |-> <<>>]

\* the debounce effect: cleanup of the previous run, then debouncedSetQuery(searchQuery)
DebounceEffect(d, sq) ==
    LET c == EffectCleanup(d)
        r == DebCall(c.state, sq)
    IN [state |-> r.state, invoked |-> c.invoked \o r.invoked]

(***************************************************************************)
(* The state of a mounted component.                                       *)
(***************************************************************************)
VARIABLES
    orders,              \* useMemo(() => generateMockOrders(), [])
    searchQuery,         \* the raw text of the search box
    debouncedQuery,      \* the effective query
    selectedStatus,
    minPayment,
    showGrouped,
    performanceMetrics,
    filteredOrders,      \* the memoised result of the last pipeline run
    usedFuse,            \* whether the last pipeline run called fuse.search
    deb,                 \* the debounced function debouncedSetQuery
    mounted,
    sinceRaw,            \* ms since the last raw update, at most DebounceWait
    inBurst,             \* the last raw update came less than DebounceWait
                         \* after the one before it
    emits,               \* calls of setDebouncedQuery since the last raw update
    emitGap,             \* sinceRaw at the first of these calls, -1 when emits = 0
    observations,        \* the durations the runs of the memo callback measured
    fuse,                \* the collection the search index was built from
    fuseBuilds,          \* calls of new Fuse(orders, fuseOptions) so far
    filtersChanged       \* the status or the minimum payment was changed since
                         \* the last raw update, while a timer was pending

vars == <<orders, searchQuery, debouncedQuery, selectedStatus, minPayment,
          showGrouped, performanceMetrics, filteredOrders, usedFuse, deb,
          mounted, sinceRaw, inBurst, emits, emitGap, observations,
          fuse, fuseBuilds, filtersChanged>>

\* the values of the memos groupedOrders ([filteredOrders, showGrouped]) and
\* flattenedData ([groupedOrders, filteredOrders]) in the committed render
groupedOrders == GroupOrders(filteredOrders, showGrouped)
flattenedData == FlattenData(groupedOrders, filteredOrders)

\* a status filter with a button for every status of an order
StatusButtonsEveryStatus == {"all", "pending", "in_progress", "completed"}

\* the buttons of the status filter and of the payment filter
StatusButtons == {"all", "pending", "in_progress"}
PaymentButtons == {0, 75, 100, 150}

\* an orders memo without its dependency list: every render draws new orders
OrdersMemoNoDeps ==
    \E kinds \in [1..NumOrders -> OrderKinds] : orders' = GenerateMockOrders(kinds)

\* useMemo(() => generateMockOrders(), []) in a render after the first: no
\* dependency can change, the memo keeps the value of the first render
OrdersMemo == orders' = orders

\* an index memo without its dependency list: every render builds the index
FuseMemoNoDeps == fuse' = orders' /\ fuseBuilds' = fuseBuilds + 1

\* useMemo(() => new Fuse(orders, fuseOptions), [orders, fuseOptions]) in a
\* render after the first (fuseOptions is a memo with no dependencies)
FuseMemo ==
    IF orders' # orders
    THEN fuse' = orders' /\ fuseBuilds' = fuseBuilds + 1
    ELSE UNCHANGED <<fuse, fuseBuilds>>

\* a pipeline whose output depends on the runs before it
RunPipelineByHistory(dq, st, mp, searchTime) ==
    /\ performanceMetrics.totalSearches < MaxRuns
    /\ filteredOrders' =
           LET r == FilterPipeline(orders, dq, st, mp).result
           IN IF performanceMetrics.totalSearches % 2 = 0
              THEN [i \in 1..Len(r) |-> r[Len(r) + 1 - i]]
              ELSE r
    /\ usedFuse' = FilterPipeline(orders, dq, st, mp).fuseCalled
    /\ performanceMetrics' = RecordSearchTime(performanceMetrics, searchTime)
    /\ observations' = Append(observations, searchTime)

\* a memo that never keeps its value
MemoKeptNever(prevDeps, deps) == FALSE

\* whether a memo keeps its value in a render pass: every dependency is
\* the one of the pass before
MemoKept(prevDeps, deps) == prevDeps = deps

\* the memo callback has run in a render pass with the dependencies deps
\* and has called setPerformanceMetrics, so React renders the component
\* again, and again while a pass runs the callback, up to MaxPasses passes:
\* the number of runs of the callback in the passes after pass
RECURSIVE RunsAgain(_, _)
RunsAgain(deps, pass) ==
    IF pass >= MaxPasses \/ MemoKept(deps, deps) THEN 0
    ELSE 1 + RunsAgain(deps, pass + 1)

\* the metrics after n runs that each measured searchTime
RECURSIVE RecordRuns(_, _, _)
RecordRuns(prev, searchTime, n) ==
    IF n = 0 THEN prev
    ELSE RecordRuns(RecordSearchTime(prev, searchTime), searchTime, n - 1)

RECURSIVE AppendTimes(_, _, _)
AppendTimes(seq, x, n) ==
    IF n = 0 THEN seq ELSE AppendTimes(Append(seq, x), x, n - 1)

\* a pipeline run whose setPerformanceMetrics is put off until after the
\* commit: the result is published with the metrics of the run before
RunPipelineMetricsLater(dq, st, mp, searchTime) ==
    /\ performanceMetrics.totalSearches < MaxRuns
    /\ LET run == FilterPipeline(orders, dq, st, mp)
       IN /\ filteredOrders' = run.result
          /\ usedFuse' = run.fuseCalled
    /\ performanceMetrics' = performanceMetrics
    /\ observations' = Append(observations, searchTime)

\* a render in which the callback of the filteredOrders memo runs with the
\* dependencies dq, st, mp, taking searchTime ms, together with the passes
\* its setPerformanceMetrics makes React render before the commit
RunPipeline(dq, st, mp, searchTime) ==
    /\ performanceMetrics.totalSearches < MaxRuns
    /\ LET run == FilterPipeline(orders, dq, st, mp)
       IN /\ filteredOrders' = run.result
          /\ usedFuse' = run.fuseCalled
    /\ \E runs \in {1 + RunsAgain(<<dq, st, mp>>, 1)} :
           /\ performanceMetrics' = RecordRuns(performanceMetrics, searchTime, runs)
           /\ observations' = AppendTimes(observations, searchTime, runs)

\* a memo without its dependency list runs in every render
RenderMemoNoDeps(dq, st, mp, searchTime) == RunPipeline(dq, st, mp, searchTime)

\* useMemo(..., [orders, debouncedQuery, selectedStatus, minPayment, fuse])
RenderMemo(dq, st, mp, searchTime) ==
    IF ~MemoKept(<<debouncedQuery, selectedStatus, minPayment>>, <<dq, st, mp>>)
    THEN RunPipeline(dq, st, mp, searchTime)
    ELSE UNCHANGED <<filteredOrders, usedFuse, performanceMetrics, observations>>

\* setDebouncedQuery is called with each of `invoked`: the record of these
\* calls since the last raw update (count of them before, firstGap theirs)
Emit(invoked, gap, count, firstGap) ==
    /\ emits' = count + Len(invoked)
    /\ emitGap' = IF invoked # <<>> /\ count = 0 THEN gap ELSE firstGap

\* the state debouncedQuery after these calls; a setter of an unmounted
\* component changes nothing
EffectiveQuery(invoked, stillMounted) ==
    IF invoked # <<>> /\ stillMounted THEN invoked[Len(invoked)] ELSE debouncedQuery

\* the first render and the first run of the effects, for the generator's
\* draws kinds and the duration searchTime the first pipeline run measures
Mount(kinds, searchTime) ==
    /\ orders = GenerateMockOrders(kinds)
    /\ searchQuery = <<>>
    /\ debouncedQuery = <<>>
    /\ selectedStatus = "all"
    /\ minPayment = 0
    /\ showGrouped = TRUE
    /\ filteredOrders = FilterPipeline(orders, <<>>, "all", 0).result
    /\ usedFuse = FilterPipeline(orders, <<>>, "all", 0).fuseCalled
    /\ \E runs \in {1 + RunsAgain(<<<<>>, "all", 0>>, 1)} :
           /\ performanceMetrics = RecordRuns(InitialMetrics, searchTime, runs)
           /\ observations = AppendTimes(<<>>, searchTime, runs)
    /\ fuse = orders
    /\ fuseBuilds = 1
    /\ deb = DebounceEffect(IdleDebounce, <<>>).state
    /\ mounted = TRUE
    /\ sinceRaw = 0
    /\ inBurst = FALSE
    /\ emits = 0
    /\ emitGap = -1
    /\ filtersChanged = FALSE

\* onChangeText={setSearchQuery}: the text of the box has changed to text
SetSearchQuery(text, searchTime) ==
    /\ mounted
    /\ text # searchQuery
    /\ searchQuery' = text
    /\ OrdersMemo /\ FuseMemo
    /\ sinceRaw' = 0
    /\ inBurst' = (sinceRaw < DebounceWait)
    /\ filtersChanged' = FALSE
    /\ LET r == DebounceEffect(deb, text)
       IN /\ deb' = r.state
          /\ Emit(r.invoked, 0, 0, -1)
          /\ debouncedQuery' = EffectiveQuery(r.invoked, TRUE)
          /\ RenderMemo(debouncedQuery', selectedStatus, minPayment, searchTime)
    /\ UNCHANGED <<selectedStatus, minPayment, showGrouped, mounted>>

\* the timer of the debounced function is due and its callback runs
TimerExpired(searchTime) ==
    /\ deb.timerId
    /\ deb.timerLeft = 0
    /\ OrdersMemo /\ FuseMemo
    /\ LET r == DebTimerExpired(deb)
       IN /\ deb' = r.state
          /\ Emit(r.invoked, sinceRaw, emits, emitGap)
          /\ debouncedQuery' = EffectiveQuery(r.invoked, mounted)
          /\ RenderMemo(debouncedQuery', selectedStatus, minPayment, searchTime)
    /\ UNCHANGED <<searchQuery, selectedStatus, minPayment, showGrouped,
                   mounted, sinceRaw, inBurst, filtersChanged>>

\* a debounce effect that lists selectedStatus among its dependencies: the
\* status change runs its cleanup and calls debouncedSetQuery again
SetSelectedStatusRestartsTimer(status, searchTime) ==
    /\ mounted
    /\ status # selectedStatus
    /\ selectedStatus' = status
    /\ OrdersMemo /\ FuseMemo
    /\ RenderMemo(debouncedQuery, status, minPayment, searchTime)
    /\ filtersChanged' = (filtersChanged \/ deb.timerId)
    /\ deb' = DebounceEffect(deb, searchQuery).state
    /\ UNCHANGED <<searchQuery, debouncedQuery, minPayment, showGrouped,
                   mounted, sinceRaw, inBurst, emits, emitGap>>

\* onPress={() => setSelectedStatus(status)}
SetSelectedStatus(status, searchTime) ==
    /\ mounted
    /\ status # selectedStatus
    /\ selectedStatus' = status
    /\ OrdersMemo /\ FuseMemo
    /\ RenderMemo(debouncedQuery, status, minPayment, searchTime)
    /\ filtersChanged' = (filtersChanged \/ deb.timerId)
    /\ UNCHANGED <<searchQuery, debouncedQuery, minPayment, showGrouped,
                   deb, mounted, sinceRaw, inBurst, emits, emitGap>>

\* onPress={() => setMinPayment(amount)}
SetMinPayment(amount, searchTime) ==
    /\ mounted
    /\ amount # minPayment
    /\ minPayment' = amount
    /\ OrdersMemo /\ FuseMemo
    /\ RenderMemo(debouncedQuery, selectedStatus, amount, searchTime)
    /\ filtersChanged' = (filtersChanged \/ deb.timerId)
    /\ UNCHANGED <<searchQuery, debouncedQuery, selectedStatus, showGrouped,
                   deb, mounted, sinceRaw, inBurst, emits, emitGap>>

\* onPress={() => setShowGrouped(!showGrouped)}
ToggleGrouped(searchTime) ==
    /\ mounted
    /\ showGrouped' = ~showGrouped
    /\ OrdersMemo /\ FuseMemo
    /\ RenderMemo(debouncedQuery, selectedStatus, minPayment, searchTime)
    /\ UNCHANGED <<searchQuery, debouncedQuery, selectedStatus, minPayment,
                   deb, mounted, sinceRaw, inBurst, emits, emitGap, filtersChanged>>

\* component.update(<OrderSearch />): a render with no state changed
ReRender(searchTime) ==
    /\ mounted
    /\ OrdersMemo /\ FuseMemo
    /\ RenderMemo(debouncedQuery, selectedStatus, minPayment, searchTime)
    /\ UNCHANGED <<searchQuery, debouncedQuery, selectedStatus, minPayment,
                   showGrouped, deb, mounted, sinceRaw, inBurst, emits, emitGap,
                   filtersChanged>>

\* component.unmount(): the cleanup of the debounce effect runs
Unmount ==
    /\ mounted
    /\ mounted' = FALSE
    /\ LET c == EffectCleanup(deb)
       IN /\ deb' = c.state
          /\ Emit(c.invoked, sinceRaw, emits, emitGap)
    /\ UNCHANGED <<orders, searchQuery, debouncedQuery, selectedStatus, minPayment,
                   showGrouped, performanceMetrics, filteredOrders, usedFuse, sinceRaw,
                   inBurst, observations, fuse, fuseBuilds, filtersChanged>>

\* TickMs of time pass
Tick ==
    /\ sinceRaw' = Min2(DebounceWait, sinceRaw + TickMs)
    /\ deb' = [deb EXCEPT
                 !.timerLeft = IF deb.timerId /\ @ > TickMs THEN @ - TickMs ELSE 0,
                 !.lastCallAge = IF @ = -1 THEN -1 ELSE Min2(DebounceWait, @ + TickMs)]
    /\ UNCHANGED <<orders, searchQuery, debouncedQuery, selectedStatus, minPayment,
                   showGrouped, performanceMetrics, filteredOrders, usedFuse,
                   mounted, inBurst, emits, emitGap, observations, fuse, fuseBuilds,
                   filtersChanged>>

(***************************************************************************)
(* The component with every order set the generator's draws give, the      *)
(* texts of Queries and a clock too coarse to measure a run: 0 ms.          *)
(***************************************************************************)
ClockMs == {NumZero}

Init == \E kinds \in [1..NumOrders -> OrderKinds] : \E t \in ClockMs : Mount(kinds, t)

Next ==
    \/ \E text \in Queries : \E t \in ClockMs : SetSearchQuery(text, t)
    \/ \E t \in ClockMs : TimerExpired(t)
    \/ \E status \in StatusButtons : \E t \in ClockMs : SetSelectedStatus(status, t)
    \/ \E amount \in PaymentButtons : \E t \in ClockMs : SetMinPayment(amount, t)
    \/ \E t \in ClockMs : ToggleGrouped(t)
    \/ \E t \in ClockMs : ReRender(t)
    \/ Unmount
    \/ Tick

Spec == Init /\ [][Next]_vars

(***************************************************************************)
(* The component with one order set, two texts and a clock that measures   *)
(* 0.1 ms or 2 ms for a run: the histories of the metrics.                 *)
(***************************************************************************)
Durations == {NumOverInt(NumFromInt(1), 10), NumFromInt(2)}

MetricsKinds ==
    [i \in 1..NumOrders |->
        [storeName |-> Walmart, status |-> "pending", paymentAmount |-> 100]]

MetricsQueries == { <<>>, <<"W", "a", "l", "m", "a", "r">> }

MetricsInit == \E t \in Durations : Mount(MetricsKinds, t)

MetricsNext ==
    \/ \E text \in MetricsQueries : \E t \in Durations : SetSearchQuery(text, t)
    \/ \E t \in Durations : TimerExpired(t)
    \/ \E status \in StatusButtons : \E t \in Durations : SetSelectedStatus(status, t)
    \/ \E amount \in PaymentButtons : \E t \in Durations : SetMinPayment(amount, t)
    \/ \E t \in Durations : ToggleGrouped(t)
    \/ \E t \in Durations : ReRender(t)
    \/ Unmount
    \/ Tick

MetricsSpec == MetricsInit /\ [][MetricsNext]_vars

(***************************************************************************)
(* The component over the orders of ExampleKinds, with the texts of        *)
(* ExampleQueries.                                                         *)
(***************************************************************************)
ExampleInit == \E t \in ClockMs : Mount(ExampleKinds, t)

ExampleNext ==
    \/ \E text \in ExampleQueries : \E t \in ClockMs : SetSearchQuery(text, t)
    \/ \E t \in ClockMs : TimerExpired(t)
    \/ \E status \in StatusButtons : \E t \in ClockMs : SetSelectedStatus(status, t)
    \/ \E amount \in PaymentButtons : \E t \in ClockMs : SetMinPayment(amount, t)
    \/ \E t \in ClockMs : ToggleGrouped(t)
    \/ \E t \in ClockMs : ReRender(t)
    \/ Unmount
    \/ Tick

ExampleSpec == ExampleInit /\ [][ExampleNext]_vars

(***************************************************************************)
(* The core driven by a caller that is not the user interface: the state   *)
(* setters take any status and any amount, the text is at most one         *)
(* character.                                                              *)
(***************************************************************************)
CoreStatuses == StatusButtons \cup {"completed", "cancelled"}
CorePayments == PaymentButtons \cup {-50}

CoreInit == \E t \in ClockMs : Mount(MetricsKinds, t)

CoreNext ==
    \/ \E text \in CoreQueries : \E t \in ClockMs : SetSearchQuery(text, t)
    \/ \E t \in ClockMs : TimerExpired(t)
    \/ \E status \in CoreStatuses : \E t \in ClockMs : SetSelectedStatus(status, t)
    \/ \E amount \in CorePayments : \E t \in ClockMs : SetMinPayment(amount, t)
    \/ \E t \in ClockMs : ToggleGrouped(t)
    \/ \E t \in ClockMs : ReRender(t)
    \/ Unmount
    \/ Tick

CoreSpec == CoreInit /\ [][CoreNext]_vars

(***************************************************************************)
(* The component with one order set and two texts, under the scheduling    *)
(* of the host: time passes and a timer that is due fires.  The user acts  *)
(* only while two more runs fit below MaxRuns (the run of the action and   *)
(* the run of a pending timer), so that the bound stops no timer.          *)
(***************************************************************************)
Room == performanceMetrics.totalSearches + 2 <= MaxRuns

LiveInit == \E t \in ClockMs : Mount(MetricsKinds, t)

LiveNext ==
    \/ Room /\ \E text \in MetricsQueries : \E t \in ClockMs : SetSearchQuery(text, t)
    \/ \E t \in ClockMs : TimerExpired(t)
    \/ Room /\ \E status \in StatusButtons : \E t \in ClockMs : SetSelectedStatus(status, t)
    \/ Room /\ \E amount \in PaymentButtons : \E t \in ClockMs : SetMinPayment(amount, t)
    \/ \E t \in ClockMs : ToggleGrouped(t)
    \/ \E t \in ClockMs : ReRender(t)
    \/ Unmount
    \/ Tick

LiveSpec ==
    /\ LiveInit /\ [][LiveNext]_vars
    /\ WF_vars(Tick)
    /\ WF_vars(\E t \in ClockMs : TimerExpired(t))

(***************************************************************************)
(* Properties.                                                             *)
(***************************************************************************)
\* a is b with some elements left out
RECURSIVE IsSubseq(_, _)
IsSubseq(a, b) ==
    IF a = <<>> THEN TRUE
    ELSE IF b = <<>> THEN FALSE
    ELSE IF Head(a) = Head(b) THEN IsSubseq(Tail(a), Tail(b))
    ELSE IsSubseq(a, Tail(b))

Elements(seq) == {seq[i] : i \in 1..Len(seq)}

\* this step calls setDebouncedQuery
Emitted == emits' > 0 /\ <<emits, emitGap>>' # <<emits, emitGap>>

\* this step changes a dependency of the filteredOrders memo
DepsChanged ==
    <<debouncedQuery, selectedStatus, minPayment>>' #
        <<debouncedQuery, selectedStatus, minPayment>>

\* C1: since the last raw update at most one effective-query update has
\* been emitted, it came DebounceWait ms or more after that raw update, and
\* while the component is mounted the update is either still pending on the
\* timer or has been emitted: a burst of raw updates less than DebounceWait
\* apart yields exactly one emission, after its last update.
C1_OneEmissionPerBurst ==
    /\ emits <= 1
    /\ emits = 1 => emitGap >= DebounceWait
    /\ mounted => (deb.timerId <=> emits = 0)

\* a burst (a raw update less than DebounceWait after another) has been
\* emitted once, and its last value is the effective query
C1_Witness ==
    /\ mounted /\ inBurst /\ emits = 1 /\ emitGap >= DebounceWait
    /\ searchQuery # <<>> /\ debouncedQuery = searchQuery

\* C2: a step that emits an effective-query update in a mounted component
\* leaves the effective query equal to the raw query current at that
\* moment.
C2_EmitsCurrentRaw ==
    [][(Emitted /\ mounted') => debouncedQuery' = searchQuery']_vars

\* the last value of a burst has been emitted and is the effective query,
\* the values it superseded never were
C2_Witness ==
    /\ mounted /\ inBurst /\ emits = 1
    /\ debouncedQuery = searchQuery /\ debouncedQuery # <<>>
    /\ performanceMetrics.totalSearches = 2

\* C3: once the component is unmounted no timer is pending, and no step
\* that ends unmounted emits an effective-query update or changes the
\* effective query.
C3_NoEmitAfterUnmount ==
    /\ [](~mounted => ~deb.timerId)
    /\ [][~mounted' => (~Emitted /\ debouncedQuery' = debouncedQuery)]_vars

\* unmounted with a raw value that was pending on the timer: DebounceWait
\* has passed and it has not been emitted
C3_Witness ==
    /\ ~mounted /\ searchQuery # debouncedQuery
    /\ emits = 0 /\ sinceRaw >= DebounceWait

\* C4: a step runs the pipeline (totalSearches changes) only if it changes
\* the effective query, the selected status or the minimum payment; every
\* other step leaves the filtered result and the metrics as they are.
C4_RunsOnlyOnDeps ==
    [][~DepsChanged =>
          /\ performanceMetrics' = performanceMetrics
          /\ filteredOrders' = filteredOrders]_vars

\* a raw keystroke not yet emitted and a grouping toggle have happened and
\* the pipeline has run for the mount only
C4_Witness ==
    /\ mounted /\ searchQuery # debouncedQuery /\ ~showGrouped
    /\ performanceMetrics.totalSearches = 1

\* C5: with a status filter other than "all" every order of the result has
\* that status; with "all" the result is the text step's output filtered
\* by payment alone.
C5_StatusFilter ==
    /\ selectedStatus # "all" =>
           \A i \in 1..Len(filteredOrders) : filteredOrders[i].status = selectedStatus
    /\ selectedStatus = "all" =>
           filteredOrders =
               SelectSeq(TextStep(orders, debouncedQuery).result,
                         LAMBDA o : o.paymentAmount >= minPayment)

\* a status filter that keeps an order and removes another that passes the
\* payment filter
C5_Witness ==
    /\ selectedStatus = "pending" /\ filteredOrders # <<>>
    /\ \E i \in 1..Len(orders) :
           /\ orders[i].status # "pending"
           /\ orders[i].paymentAmount >= minPayment

\* C6: every order of the result pays minPayment or more, and every order
\* of the output of steps 1 and 2 that pays minPayment or more is in the
\* result.
C6_PaymentFilter ==
    /\ \A i \in 1..Len(filteredOrders) : filteredOrders[i].paymentAmount >= minPayment
    /\ \A o \in Elements(StatusStep(TextStep(orders, debouncedQuery).result,
                                    selectedStatus)) :
           o.paymentAmount >= minPayment => o \in Elements(filteredOrders)

\* an order that pays exactly the threshold is kept and another is removed
C6_Witness ==
    /\ minPayment = 100
    /\ \E i \in 1..Len(filteredOrders) : filteredOrders[i].paymentAmount = 100
    /\ \E i \in 1..Len(orders) : orders[i].paymentAmount < 100

\* C7: a step that raises minPayment, or leaves it, and keeps the effective
\* query and the status leaves a result that is a subsequence of the result
\* before.
C7_PaymentMonotone ==
    [][(/\ minPayment' >= minPayment
        /\ debouncedQuery' = debouncedQuery
        /\ selectedStatus' = selectedStatus)
           => IsSubseq(filteredOrders', filteredOrders)]_vars

\* the threshold has been raised from 0 and has removed some of the orders,
\* not all
C7_Witness ==
    /\ minPayment = 100 /\ debouncedQuery = <<>> /\ selectedStatus = "all"
    /\ performanceMetrics.totalSearches = 2
    /\ filteredOrders # <<>> /\ Len(filteredOrders) < Len(orders)

\* C8: the result is a subsequence of the output of step 1.
C8_SubsequenceOfTextStep ==
    IsSubseq(filteredOrders, TextStep(orders, debouncedQuery).result)

\* a query is active, the payment filter has removed nothing of a result
\* that is in relevance order and not in repository order
C8_Witness ==
    /\ Trim(debouncedQuery) # <<>> /\ minPayment > 0
    /\ Len(filteredOrders) >= 2
    /\ ~IsSubseq(filteredOrders, orders)

\* C9: while the effective query is empty or whitespace only, the last
\* pipeline run did not call the matcher and its result is the order set in
\* repository order filtered by status and payment, as for the empty query.
C9_BlankQuerySkipsFuse ==
    Trim(debouncedQuery) = <<>> =>
        /\ ~usedFuse
        /\ filteredOrders =
               SelectSeq(orders,
                         LAMBDA o : /\ selectedStatus \in {"all", o.status}
                                    /\ o.paymentAmount >= minPayment)

\* a whitespace-only effective query with a result
C9_Witness ==
    /\ debouncedQuery = <<" ">> /\ filteredOrders # <<>>
    /\ performanceMetrics.totalSearches >= 2

\* C10: while no query is active the result is ordered by paymentAmount,
\* highest first.
C10_SortedByPaymentDesc ==
    Trim(debouncedQuery) = <<>> =>
        \A i, j \in 1..Len(filteredOrders) :
            i < j => filteredOrders[i].paymentAmount >= filteredOrders[j].paymentAmount

\* no query is active and the result starts with an order generated after
\* the one that follows it
C10_Witness ==
    /\ debouncedQuery = <<>> /\ Len(filteredOrders) >= 2
    /\ filteredOrders[1].id = OrderId(2)
    /\ filteredOrders[1].paymentAmount > filteredOrders[2].paymentAmount

PlacesOf(o) ==
    {p \in (1..Len(groupedOrders.groups)) \X (1..Len(filteredOrders)) :
        /\ p[2] <= Len(groupedOrders.groups[p[1]].orders)
        /\ groupedOrders.groups[p[1]].orders[p[2]] = o}

\* C12: with grouping enabled every order of the filtered result is a
\* member of exactly one group, once, the groups have no other members, and
\* every member has the status of its group.
C12_GroupsPartitionResult ==
    showGrouped =>
        /\ ~groupedOrders.null
        /\ \A o \in Elements(filteredOrders) : Cardinality(PlacesOf(o)) = 1
        /\ \A k \in 1..Len(groupedOrders.groups) :
               \A m \in Elements(groupedOrders.groups[k].orders) :
                   /\ m \in Elements(filteredOrders)
                   /\ m.status = groupedOrders.groups[k].status

\* two groups, one of them of completed orders
C12_Witness ==
    /\ showGrouped /\ Len(groupedOrders.groups) = 2
    /\ \E o \in Elements(filteredOrders) : o.status = "completed"

BucketRank(status) ==
    CASE status = "pending" -> 1 [] status = "in_progress" -> 2 [] OTHER -> 3

\* C13: the groups are in the order pending, in_progress, completed and
\* each of them has members and a count above 0.
C13_BucketOrderNoEmpty ==
    showGrouped =>
        \A k \in 1..Len(groupedOrders.groups) :
            /\ groupedOrders.groups[k].count > 0
            /\ groupedOrders.groups[k].orders # <<>>
            /\ \A j \in 1..(k - 1) :
                   BucketRank(groupedOrders.groups[j].status) <
                       BucketRank(groupedOrders.groups[k].status)

\* the filtered result has an in_progress order before a pending one, the
\* groups are pending then in_progress, and the empty group is left out
C13_Witness ==
    /\ showGrouped /\ Len(filteredOrders) = 2
    /\ filteredOrders[1].status = "in_progress"
    /\ filteredOrders[2].status = "pending"
    /\ Len(groupedOrders.groups) = 2
    /\ groupedOrders.groups[1].status = "pending"

\* C14: the members of each group are the orders of the filtered result
\* with the group's status, in the order of the filtered result.
C14_GroupKeepsOrder ==
    showGrouped =>
        \A k \in 1..Len(groupedOrders.groups) :
            groupedOrders.groups[k].orders =
                SelectSeq(filteredOrders,
                          LAMBDA o : o.status = groupedOrders.groups[k].status)

\* a group of two members
C14_Witness ==
    /\ showGrouped /\ Len(groupedOrders.groups) = 1
    /\ Len(groupedOrders.groups[1].orders) = 2
    /\ groupedOrders.groups[1].orders[1].id = OrderId(2)

\* the number of entries of the render-ready sequence before group k
RECURSIVE EntriesBefore(_)
EntriesBefore(k) ==
    IF k <= 1 THEN 0
    ELSE EntriesBefore(k - 1) + 1 + Len(groupedOrders.groups[k - 1].orders)

\* C15: with grouping enabled the render-ready sequence holds, for each
\* group in turn, the group as header and then its members, and nothing
\* else, so its length is the filtered count plus the number of groups;
\* with grouping disabled it is the filtered result.
C15_FlattenedData ==
    /\ showGrouped =>
           /\ Len(flattenedData) = Len(filteredOrders) + Len(groupedOrders.groups)
           /\ \A k \in 1..Len(groupedOrders.groups) :
                  /\ flattenedData[EntriesBefore(k) + 1] = groupedOrders.groups[k]
                  /\ \A i \in 1..Len(groupedOrders.groups[k].orders) :
                         flattenedData[EntriesBefore(k) + 1 + i] =
                             groupedOrders.groups[k].orders[i]
    /\ ~showGrouped => flattenedData = filteredOrders

\* two headers, each followed by its one member
C15_Witness ==
    /\ showGrouped /\ Len(flattenedData) = 4
    /\ flattenedData[1].status = "pending" /\ flattenedData[1].count = 1
    /\ flattenedData[2].id \in {OrderId(1), OrderId(2)}

(***************************************************************************)
(* Exact arithmetic on the values m * 2^e, for the properties of the       *)
(* metrics.                                                                *)
(***************************************************************************)
\* a - b for a >= b
RECURSIVE BigSubBorrow(_, _, _)
BigSubBorrow(a, b, c) ==
    IF a = <<>> THEN <<>>
    ELSE LET y == (IF b = <<>> THEN 0 ELSE Head(b)) + c
             d == IF Head(a) >= y THEN Head(a) - y ELSE Head(a) + LimbBase - y
         IN <<d>> \o BigSubBorrow(Tail(a), IF b = <<>> THEN <<>> ELSE Tail(b),
                                  IF Head(a) >= y THEN 0 ELSE 1)

BigSub(a, b) == BigNorm(BigSubBorrow(a, b, 0))

MinExp(x, y) == IF x.e < y.e THEN x.e ELSE y.e
ExactLeq(x, y) ==
    BigLeq(BigShl(x.m, x.e - MinExp(x, y)), BigShl(y.m, y.e - MinExp(x, y)))
ExactEq(x, y) == ExactLeq(x, y) /\ ExactLeq(y, x)
ExactPlus(x, y) ==
    [m |-> BigAdd(BigShl(x.m, x.e - MinExp(x, y)), BigShl(y.m, y.e - MinExp(x, y))),
     e |-> MinExp(x, y)]
ExactTimesInt(x, n) == [m |-> BigMulSmall(x.m, n), e |-> x.e]
ExactAbsDiff(x, y) ==
    LET a == BigShl(x.m, x.e - MinExp(x, y))
        b == BigShl(y.m, y.e - MinExp(x, y))
    IN [m |-> IF BigLeq(a, b) THEN BigSub(b, a) ELSE BigSub(a, b), e |-> MinExp(x, y)]

RECURSIVE ExactSum(_)
ExactSum(ts) == IF ts = <<>> THEN NumZero ELSE ExactPlus(Head(ts), ExactSum(Tail(ts)))

\* averageSearchTime * totalSearches, exactly
AverageTimesRuns ==
    ExactTimesInt(performanceMetrics.averageSearchTime, performanceMetrics.totalSearches)

\* C16: totalSearches is the number of runs of the pipeline since the
\* mount: each run counts once and nothing else changes the count.
C16_CountsEveryRun ==
    performanceMetrics.totalSearches = Len(observations)

\* three runs, and events that run nothing: a keystroke not yet emitted
\* and a grouping toggle
C16_Witness ==
    /\ performanceMetrics.totalSearches = 3 /\ Len(observations) = 3
    /\ searchQuery # debouncedQuery /\ ~showGrouped

\* C17 as stated: averageSearchTime times totalSearches is the sum of the
\* observations.
C17_ExactMean ==
    ExactEq(AverageTimesRuns, ExactSum(observations))

\* C17, amended: every run leaves the Number
\* (oldAvg * oldCount + duration) / (oldCount + 1), with the count before
\* the increment and each operation rounded; averageSearchTime times
\* totalSearches differs from the sum of the observations by no more than
\* the rounding of three operations a run allows, a 3 * totalSearches *
\* 2^-52 part of the sum.
C17_RunningMeanRounded ==
    /\ [][performanceMetrics' # performanceMetrics =>
             /\ performanceMetrics'.lastSearchTime = observations'[Len(observations')]
             /\ performanceMetrics'.averageSearchTime =
                    NumOverInt(NumPlus(NumTimesInt(performanceMetrics.averageSearchTime,
                                                   performanceMetrics.totalSearches),
                                       performanceMetrics'.lastSearchTime),
                               performanceMetrics.totalSearches + 1)]_vars
    /\ [](LET diff == ExactAbsDiff(AverageTimesRuns, ExactSum(observations))
          IN ExactLeq([m |-> diff.m, e |-> diff.e + 52],
                      ExactTimesInt(ExactSum(observations),
                                    3 * performanceMetrics.totalSearches)))

\* three runs of different durations whose rounded mean is not the exact one
C17_Witness ==
    /\ performanceMetrics.totalSearches = 3
    /\ observations[1] # observations[3]
    /\ ~ExactEq(AverageTimesRuns, ExactSum(observations))

Ids(os) == [i \in 1..Len(os) |-> os[i].id]

\* C19: over the orders ORD-0001 Walmart pending 120, ORD-0002 Target
\* completed 80, ORD-0003 Walmart in_progress 200, the result for the
\* effective query "Walmar", status "all" and minimum payment 100 is
\* ORD-0003, ORD-0001.
C19_WalmarExample ==
    (/\ Elements(orders) = {MakeOrder(i, ExampleKinds[i]) : i \in 1..Len(ExampleKinds)}
     /\ debouncedQuery = <<"W", "a", "l", "m", "a", "r">>
     /\ selectedStatus = "all" /\ minPayment = 100)
        => Ids(filteredOrders) = <<OrderId(3), OrderId(1)>>

\* the run of the example has happened, through the matcher
C19_Witness ==
    /\ Elements(orders) = {MakeOrder(i, ExampleKinds[i]) : i \in 1..Len(ExampleKinds)}
    /\ debouncedQuery = <<"W", "a", "l", "m", "a", "r">>
    /\ selectedStatus = "all" /\ minPayment = 100
    /\ usedFuse /\ Len(filteredOrders) = 2

\* C20: with no status or payment constraint, the result for the effective
\* query "Walmar" holds every order whose store is Walmart and the result
\* for "Zzzzz" holds none of them; both come from the matcher.
C20_TypoTolerance ==
    (selectedStatus = "all" /\ minPayment = 0) =>
        /\ debouncedQuery = <<"W", "a", "l", "m", "a", "r">> =>
               /\ usedFuse
               /\ \A o \in Elements(orders) :
                      o.storeName = Walmart => o \in Elements(filteredOrders)
        /\ debouncedQuery = <<"Z", "z", "z", "z", "z">> =>
               /\ usedFuse
               /\ \A o \in Elements(orders) :
                      o.storeName = Walmart => o \notin Elements(filteredOrders)

\* "Zzzzz" has been searched after "Walmar" had found the Walmart orders
C20_Witness ==
    /\ debouncedQuery = <<"Z", "z", "z", "z", "z">>
    /\ selectedStatus = "all" /\ minPayment = 0
    /\ usedFuse /\ filteredOrders = <<>>
    /\ performanceMetrics.totalSearches = 3
    /\ \E o \in Elements(orders) : o.storeName = Walmart

\* C21: the search index is built once, at mount, from the order set, and
\* no raw query update, effective-query update, status change, payment
\* change or grouping toggle builds it again.
C21_IndexBuiltOnce == fuseBuilds = 1 /\ fuse = orders

\* the text has been typed and has become effective, a filter button has
\* been pressed and the grouping toggled, with the index of the mount
C21_Witness ==
    /\ fuseBuilds = 1
    /\ searchQuery # <<>> /\ debouncedQuery = searchQuery /\ usedFuse
    /\ (selectedStatus # "all" \/ minPayment # 0)
    /\ ~showGrouped

\* C22: no query, status, payment or grouping event and no pipeline or
\* grouping run inserts, removes, reorders or modifies an order.
C22_OrderSetFixed == [][orders' = orders]_vars

\* the pipeline has run for a text and a filter and the grouping has run
\* over a non-empty result
C22_Witness ==
    /\ performanceMetrics.totalSearches >= 3
    /\ debouncedQuery # <<>> /\ usedFuse
    /\ showGrouped /\ ~groupedOrders.null /\ Len(groupedOrders.groups) > 0

C24_FilterDomain ==
    /\ selectedStatus = "all" /\ minPayment = 0
    /\ [](/\ selectedStatus \in {"all", "pending", "in_progress"}
          /\ minPayment \in {0, 75, 100, 150}
          /\ minPayment >= 0)

\* a button of each filter has been pressed
C24_Witness ==
    /\ selectedStatus = "in_progress" /\ minPayment = 150
    /\ performanceMetrics.totalSearches = 3

\* C25: the debounced function never has more than one timeout set, and it
\* has one exactly when its timer is pending; a raw query update clears the
\* pending timeout and sets a new one for the full wait, which holds the
\* new text, so the callback of a cleared timeout never runs.
C25_SingleTimer ==
    /\ [](deb.timers <= 1 /\ (deb.timers = 1) = deb.timerId)
    /\ [][searchQuery' # searchQuery =>
              /\ deb'.timers = 1
              /\ deb'.timerLeft = DebounceWait
              /\ deb'.lastArgs = <<searchQuery'>>
              /\ debouncedQuery' = debouncedQuery]_vars

\* a raw update has replaced a timer that was half-way through its wait
C25_Witness ==
    /\ inBurst /\ sinceRaw = 0
    /\ deb.timerId /\ deb.timerLeft = DebounceWait /\ deb.timers = 1
    /\ deb.lastArgs = <<searchQuery>>

InputStep ==
    \/ searchQuery' # searchQuery
    \/ selectedStatus' # selectedStatus
    \/ minPayment' # minPayment
    \/ showGrouped' # showGrouped
    \/ mounted' # mounted

C28_EmptyQueryDebounced ==
    /\ [][(searchQuery # <<>> /\ searchQuery' = <<>>) =>
              /\ debouncedQuery' = debouncedQuery
              /\ deb'.timerId /\ deb'.timerLeft = DebounceWait
              /\ deb'.lastArgs = <<searchQuery'>>]_vars
    /\ [][(debouncedQuery # <<>> /\ debouncedQuery' = <<>>) =>
              /\ deb.timerId /\ deb.timerLeft = 0 /\ ~deb'.timerId
              /\ searchQuery = <<>>
              /\ sinceRaw >= DebounceWait]_vars

\* the text was cleared a full wait ago and the old query is still effective
C28_Witness ==
    /\ mounted
    /\ searchQuery = <<>> /\ debouncedQuery # <<>>
    /\ deb.timerId /\ deb.timerLeft = 0 /\ deb.lastArgs = <<searchQuery>>
    /\ sinceRaw >= DebounceWait

C30_PendingOnlyWithTimer ==
    (mounted /\ ~deb.timerId) => debouncedQuery = searchQuery

\* a typed text became effective when its timer fired, and no timer is left
C30_Witness ==
    /\ mounted /\ ~deb.timerId /\ deb.timers = 0
    /\ searchQuery # <<>> /\ debouncedQuery = searchQuery
    /\ emits > 0

\* C31: if from some point on the component stays mounted and the raw text
\* no longer changes, then from some point on the effective query equals the
\* raw text, no timer is pending (the pending indicator is off), and the
\* published result is the pipeline's result for the raw text with the
\* current status and minimum payment.
C31_EventuallySettled ==
    ((<>[]mounted) /\ (<>[][searchQuery' = searchQuery]_vars))
        => <>[](/\ debouncedQuery = searchQuery
                /\ ~deb.timerId
                /\ filteredOrders =
                       FilterPipeline(orders, searchQuery, selectedStatus,
                                      minPayment).result)

\* settled on a typed text, after the status was changed as well
C31_Witness ==
    /\ mounted /\ ~deb.timerId /\ emits > 0
    /\ searchQuery # <<>> /\ debouncedQuery = searchQuery
    /\ selectedStatus # "all"
    /\ filteredOrders =
           FilterPipeline(orders, searchQuery, selectedStatus, minPayment).result

\* this step changes the status or the minimum payment
FilterStep == selectedStatus' # selectedStatus \/ minPayment' # minPayment

\* this step is the pending timer of a mounted component firing
TimerFires ==
    /\ mounted /\ mounted'
    /\ deb.timerId /\ ~deb'.timerId
    /\ searchQuery' = searchQuery

\* a pending timer is due DebounceWait after the last raw update and holds
\* the raw text
TimerOnSchedule ==
    (mounted /\ deb.timerId) =>
        (deb.timerLeft = DebounceWait - sinceRaw /\ deb.lastArgs = <<searchQuery>>)

\* a status or payment change under a pending timer leaves the timer and the
\* effective query alone and runs the pipeline once, on the effective query
\* with the new filters
FilterChangeKeepsTimer ==
    (FilterStep /\ deb.timerId) =>
        /\ deb' = deb /\ sinceRaw' = sinceRaw
        /\ debouncedQuery' = debouncedQuery
        /\ Len(observations') = Len(observations) + 1
        /\ filteredOrders' =
               FilterPipeline(orders, debouncedQuery, selectedStatus',
                              minPayment').result

\* C32 as stated: a status or minimum-payment change under a pending timer
\* neither cancels nor restarts the timer and runs the pipeline on the
\* previous effective query with the new filters, and the pending raw text
\* is emitted at its scheduled time and triggers a further run.
C32_FilterChangeThenRun ==
    /\ []TimerOnSchedule
    /\ [][FilterChangeKeepsTimer]_vars
    /\ [][(TimerFires /\ filtersChanged) =>
              /\ sinceRaw >= DebounceWait
              /\ debouncedQuery' = searchQuery
              /\ Len(observations') = Len(observations) + 1]_vars

\* C32 as amended: as stated, but the emission triggers a further run
\* exactly when the emitted text differs from the effective query.
C32_FilterChangeThenRunIfNew ==
    /\ []TimerOnSchedule
    /\ [][FilterChangeKeepsTimer]_vars
    /\ [][(TimerFires /\ filtersChanged) =>
              /\ sinceRaw >= DebounceWait
              /\ debouncedQuery' = searchQuery
              /\ Len(observations') = Len(observations) +
                     (IF searchQuery # debouncedQuery THEN 1 ELSE 0)]_vars

\* the status was changed under the pending timer of a typed text, and the
\* timer then fired and ran the pipeline on that text
C32_Witness ==
    /\ mounted /\ filtersChanged /\ ~deb.timerId /\ emits > 0
    /\ searchQuery # <<>> /\ debouncedQuery = searchQuery
    /\ selectedStatus # "all"
    /\ Len(observations) >= 3

====
